---- MODULE Spec2Model ----
(***************************************************************************)
(* A model of package diff (src/diff.go): the Myers O(ND) search of Diff,  *)
(* the recursive backtrace of common, and the three implementations of     *)
(* diff.Interface: stringDiff (of the package's tests), sideBySide and     *)
(* annotate.  Go slices are modelled as TLA+ sequences; a Go index idx is   *)
(* the TLA+ index idx + 1.                                                  *)
(***************************************************************************)
EXTENDS Integers, Sequences, FiniteSets, Bags, TLC

VARIABLES
    data,       \* the diff.Interface value handed to Diff (the receiver struct)
    pc,         \* position of the running Diff call
    d,          \* Diff: the loop variable d
    k,          \* Diff: the loop variable k
    v,          \* Diff: the diagonal array of the current d
    vs,         \* Diff: the retained diagonal arrays
    stack,      \* the activation records of the recursive common
    ret,        \* the value Diff returned (-1 while it runs)
    calls,      \* history: the data.Common calls made so far, in order
    equalArgs,  \* history: the (x, y) passed to data.Equal so far
    points,     \* history: the points (x, y) the search has visited
    prev        \* what the caller kept of the Diff call before this one

vars == <<data, pc, d, k, v, vs, stack, ret, calls, equalArgs, points, prev>>

\* ---------------------------------------------------------------- bounds

MaxLen == 3
MaxVersion == 2
Text == {"a", "b", "c"}

RECURSIVE SeqsOfLen(_, _)
SeqsOfLen(S, len) ==
    IF len = 0 THEN {<<>>}
    ELSE {Append(s, e) : s \in SeqsOfLen(S, len - 1), e \in S}

Seqs(S, max) == UNION {SeqsOfLen(S, len) : len \in 0..max}

Lines == Seqs(Text, MaxLen)

\* the files of ExampleAnnotate are drawn from two texts
FileText == {"a", "b"}
Files == Seqs(FileText, MaxLen)

\* ------------------------------------------------------------- constants

NoChange == 0
Added == 1
Deleted == 2
Changed == 3

\* ------------------------------------------------------------ Go slices

make(len) == [t \in 1..len |-> 0]
at(s, idx) == s[idx + 1]
put(s, idx, val) == [s EXCEPT ![idx + 1] = val]
copy(dst, src) == [t \in 1..Len(dst) |-> IF t <= Len(src) THEN src[t] ELSE dst[t]]
InBounds(s, idx) == 0 <= idx /\ idx < Len(s)
slice(s, lo, hi) == [t \in 1..(hi - lo) |-> s[lo + t]]

\* -------------------------------------------------- the three receivers

stringDiff(A, B) ==
    [type |-> "stringDiff", a |-> A, b |-> B, lcsa |-> <<>>, lcsb |-> <<>>]

sideBySide(A, B) ==
    [type |-> "sideBySide", a |-> A, b |-> B, i |-> 0, j |-> 0, lines |-> <<>>]

annotate(A, B, version) ==
    [type |-> "annotate", a |-> A, b |-> B, j |-> 0, version |-> version,
     lines |-> <<>>]

Lengths(dat) == <<Len(dat.a), Len(dat.b)>>

N == Lengths(data)[1]
M == Lengths(data)[2]

stringDiff_Equal(dat, i, j) == at(dat.a, i) = at(dat.b, j)
sideBySide_Equal(dat, i, j) == at(dat.a, i) = at(dat.b, j)
annotate_Equal(dat, i, j) == at(dat.a, i).Text = at(dat.b, j)

Equal(dat, i, j) ==
    CASE dat.type = "stringDiff" -> stringDiff_Equal(dat, i, j)
      [] dat.type = "sideBySide" -> sideBySide_Equal(dat, i, j)
      [] dat.type = "annotate" -> annotate_Equal(dat, i, j)

stringDiff_Common(dat, i, j, n) ==
    [dat EXCEPT !.lcsa = Append(@, slice(dat.a, i, i + n)),
                !.lcsb = Append(@, slice(dat.b, j, j + n))]

\* a slip in lines 120-127: the first two cases exchanged
LineType_Swapped(dat, i, j) ==
    CASE dat.i >= i -> Deleted
      [] dat.j >= j -> Added
      [] OTHER -> Changed

LineType(dat, i, j) ==
    CASE dat.i >= i -> Added
      [] dat.j >= j -> Deleted
      [] OTHER -> Changed

RECURSIVE sideBySide_gap(_, _, _)
sideBySide_gap(dat, i, j) ==
    IF dat.i < i \/ dat.j < j
    THEN LET line == [Left |-> IF dat.i < i THEN at(dat.a, dat.i) ELSE "",
                      Right |-> IF dat.j < j THEN at(dat.b, dat.j) ELSE "",
                      Type |-> LineType(dat, i, j)]
         IN sideBySide_gap(
                [dat EXCEPT !.i = IF dat.i < i THEN @ + 1 ELSE @,
                            !.j = IF dat.j < j THEN @ + 1 ELSE @,
                            !.lines = Append(@, line)], i, j)
    ELSE dat

RECURSIVE sideBySide_run(_, _)
sideBySide_run(dat, n) ==
    IF n > 0
    THEN sideBySide_run(
             [dat EXCEPT !.lines = Append(@, [Left |-> at(dat.a, dat.i),
                                              Right |-> at(dat.b, dat.j),
                                              Type |-> NoChange]),
                         !.i = @ + 1,
                         !.j = @ + 1], n - 1)
    ELSE dat

sideBySide_Common(dat, i, j, n) == sideBySide_run(sideBySide_gap(dat, i, j), n)

RECURSIVE annotate_gap(_, _)
annotate_gap(dat, j) ==
    IF dat.j < j
    THEN annotate_gap(
             [dat EXCEPT !.lines = Append(@, [Text |-> at(dat.b, dat.j),
                                              Version |-> dat.version]),
                         !.j = @ + 1], j)
    ELSE dat

\* a slip in line 181: the copied lines are stamped with the new version
annotate_copy_Restamped(dat, i, n) ==
    [dat EXCEPT !.lines = @ \o [t \in 1..n |-> [Text |-> dat.a[i + t].Text,
                                                Version |-> dat.version]],
                !.j = @ + n]

annotate_copy(dat, i, n) ==
    [dat EXCEPT !.lines = @ \o slice(dat.a, i, i + n), !.j = @ + n]

annotate_Common(dat, i, j, n) == annotate_copy(annotate_gap(dat, j), i, n)

\* s[lo:hi] is outside the slice s
slicePanics(s, lo, hi) == lo < 0 \/ hi < lo \/ hi > Len(s)

\* whether the receiver's Common(i, j, n) indexes a slice out of its range
stringDiff_CommonPanics(dat, i, j, n) ==
    slicePanics(dat.a, i, i + n) \/ slicePanics(dat.b, j, j + n)

sideBySide_CommonPanics(dat, i, j, n) ==
    \/ i > Len(dat.a)
    \/ j > Len(dat.b)
    \/ n > 0 /\ (\/ (IF dat.i < i THEN i ELSE dat.i) + n > Len(dat.a)
                 \/ (IF dat.j < j THEN j ELSE dat.j) + n > Len(dat.b))

annotate_CommonPanics(dat, i, j, n) ==
    j > Len(dat.b) \/ slicePanics(dat.a, i, i + n)

CommonPanics(dat, i, j, n) ==
    CASE dat.type = "stringDiff" -> stringDiff_CommonPanics(dat, i, j, n)
      [] dat.type = "sideBySide" -> sideBySide_CommonPanics(dat, i, j, n)
      [] dat.type = "annotate" -> annotate_CommonPanics(dat, i, j, n)

Common(dat, i, j, n) ==
    CASE dat.type = "stringDiff" -> stringDiff_Common(dat, i, j, n)
      [] dat.type = "sideBySide" -> sideBySide_Common(dat, i, j, n)
      [] dat.type = "annotate" -> annotate_Common(dat, i, j, n)

\* ------------------------------------------------------------------ Diff

\* a slip in line 37: room for the diagonals -(n+m)..(n+m) only
VLen_NoMargin(nn, mm) == 2 * (nn + mm) + 1

VLen(nn, mm) == 2 * (nn + mm) + 3

\* a slip in line 46: a tie between the neighbours goes to the insertion
DiffInsert_TieToInsert(vv, K, kk, dd) ==
    kk = -dd \/ (kk # dd /\ at(vv, K - 1) <= at(vv, K + 1))

\* a slip in line 46: the neighbours are not compared
DiffInsert_Always(vv, K, kk, dd) == kk # dd

\* line 46: whether the step into diagonal kk at depth dd comes from kk + 1
DiffInsert(vv, K, kk, dd) ==
    kk = -dd \/ (kk # dd /\ at(vv, K - 1) < at(vv, K + 1))

\* the cells of v that lines 46-50 read and line 56 writes
DiffCells(K, kk, dd) ==
    (IF kk = -dd THEN {K + 1} ELSE IF kk # dd THEN {K - 1, K + 1} ELSE {K - 1})
        \cup {K}

DiffX(vv, K, kk, dd) ==
    IF DiffInsert(vv, K, kk, dd) THEN at(vv, K + 1) ELSE at(vv, K - 1) + 1

\* a slip in lines 52-55: an if in place of the for
snake_OneStep(dat, x, y) ==
    IF x < Lengths(dat)[1] /\ y < Lengths(dat)[2] /\ Equal(dat, x, y)
    THEN x + 1
    ELSE x

\* lines 52-55: the x the snake from (x, y) ends at
RECURSIVE snake(_, _, _)
snake(dat, x, y) ==
    IF x < Lengths(dat)[1] /\ y < Lengths(dat)[2] /\ Equal(dat, x, y)
    THEN snake(dat, x + 1, y + 1)
    ELSE x

\* the arguments of the Equal calls of the snake from (x, y) that ends at xe
snakeEqualArgs(dat, x, y, xe) ==
    {p \in {<<x + t, y + t>> : t \in 0..(xe - x)} :
        p[1] < Lengths(dat)[1] /\ p[2] < Lengths(dat)[2]}

snakePoints(x, y, xe) == {<<x + t, y + t>> : t \in 0..(xe - x)}

\* line 52 would index a slice of the receiver out of its range
EqualPanics(dat, x, y) ==
    x < Lengths(dat)[1] /\ y < Lengths(dat)[2] /\ (x < 0 \/ y < 0)

\* line 57
DiffFound(x, y, nn, mm) == x >= nn /\ y >= mm

Start(dat) ==
    /\ data = dat
    /\ pc = "loop_d"
    /\ d = 0
    /\ k = 0
    /\ v = <<>>
    /\ vs = <<>>
    /\ stack = <<>>
    /\ ret = -1
    /\ calls = <<>>
    /\ equalArgs = {}
    /\ points = {}

Restart(dat) ==
    /\ data' = dat
    /\ pc' = "loop_d"
    /\ d' = 0
    /\ k' = 0
    /\ v' = <<>>
    /\ vs' = <<>>
    /\ stack' = <<>>
    /\ ret' = -1
    /\ calls' = <<>>
    /\ equalArgs' = {}
    /\ points' = {}

\* lines 36-42 (and line 65 when the loop over d runs out)
LoopD ==
    /\ pc = "loop_d"
    /\ IF d > M + N
       THEN /\ pc' = "panic"
            /\ UNCHANGED <<k, v>>
       ELSE LET v0 == make(VLen(N, M)) IN
            IF d = 0
            THEN IF InBounds(v0, 1)
                 THEN pc' = "loop_k" /\ v' = put(v0, 1, 0) /\ k' = -d
                 ELSE pc' = "index_panic" /\ UNCHANGED <<k, v>>
            ELSE pc' = "loop_k" /\ v' = copy(v0, at(vs, d - 1)) /\ k' = -d
    /\ UNCHANGED <<data, d, vs, stack, ret, calls, equalArgs, points, prev>>

\* lines 43-62: one iteration of the loop over k
LoopK ==
    /\ pc = "loop_k"
    /\ k <= d
    /\ LET K == Len(v) \div 2 + k IN
       IF \E c \in DiffCells(K, k, d) : ~InBounds(v, c)
       THEN /\ pc' = "index_panic"
            /\ UNCHANGED <<k, v, vs, stack, equalArgs, points>>
       ELSE LET x0 == DiffX(v, K, k, d)
                y0 == x0 - k
            IN IF EqualPanics(data, x0, y0)
               THEN /\ pc' = "index_panic"
                    /\ equalArgs' = equalArgs \cup {<<x0, y0>>}
                    /\ points' = points \cup {<<x0, y0>>}
                    /\ UNCHANGED <<k, v, vs, stack>>
               ELSE LET x == snake(data, x0, y0)
                        y == x - k
                        v1 == put(v, K, x)
                    IN /\ equalArgs' = equalArgs \cup snakeEqualArgs(data, x0, y0, x)
                       /\ points' = points \cup snakePoints(x0, y0, x)
                       /\ v' = v1
                       /\ IF DiffFound(x, y, N, M)
                          THEN /\ vs' = Append(vs, v1)
                               /\ stack' = <<[x1 |-> N, y1 |-> M, d |-> Len(vs), xm |-> 0]>>
                               /\ pc' = "common"
                               /\ k' = k
                          ELSE /\ k' = k + 2
                               /\ pc' = "loop_k"
                               /\ UNCHANGED <<vs, stack>>
    /\ UNCHANGED <<data, d, ret, calls, prev>>

\* line 63, and the d++ of line 36
LoopKEnd ==
    /\ pc = "loop_k"
    /\ k > d
    /\ vs' = Append(vs, v)
    /\ d' = d + 1
    /\ pc' = "loop_d"
    /\ UNCHANGED <<data, k, v, stack, ret, calls, equalArgs, points, prev>>

\* ---------------------------------------------------------------- common

\* line 74
commonInsert(vv, K, kk, dd) ==
    kk = -dd \/ (kk # dd /\ at(vv, K - 1) < at(vv, K + 1))

commonCells(K, kk, dd) ==
    IF kk = -dd THEN {K + 1} ELSE IF kk # dd THEN {K - 1, K + 1} ELSE {K - 1}

\* a slip in line 81: the deletion is not stepped over
commonStep_NoStep(vv, K, kk, dd) ==
    IF kk = -dd \/ (kk # dd /\ at(vv, K - 1) < at(vv, K + 1))
    THEN [x |-> at(vv, K + 1), y |-> at(vv, K + 1) - (kk + 1), xm |-> at(vv, K + 1)]
    ELSE [x |-> at(vv, K - 1), y |-> at(vv, K - 1) - (kk - 1), xm |-> at(vv, K - 1)]

\* lines 74-82: the end (x, y) of the previous snake and the start xm of this one
commonStep(vv, K, kk, dd) ==
    IF commonInsert(vv, K, kk, dd)
    THEN [x |-> at(vv, K + 1), y |-> at(vv, K + 1) - (kk + 1), xm |-> at(vv, K + 1)]
    ELSE [x |-> at(vv, K - 1), y |-> at(vv, K - 1) - (kk - 1), xm |-> at(vv, K - 1) + 1]

\* slips in line 86: every snake is reported; only the non-empty ones are;
\* the empty snake is reported at d = 0 instead of at the last d
commonReports_All(n, dd, last) == TRUE
commonReports_NonEmpty(n, dd, last) == n > 0
commonReports_First(n, dd, last) == n > 0 \/ dd = 0

\* line 86: whether the snake of length n at depth dd is reported
commonReports(n, dd, last) == n > 0 \/ dd = last

\* lines 69-85: common is entered with the frame on top of the stack
CommonEnter ==
    /\ pc = "common"
    /\ LET top == Len(stack)
           f == stack[top]
       IN IF ~InBounds(vs, f.d)
          THEN pc' = "index_panic" /\ UNCHANGED stack
          ELSE LET vv == at(vs, f.d)
                   kk == f.x1 - f.y1
                   K == Len(vv) \div 2 + kk
               IN IF \E c \in commonCells(K, kk, f.d) : ~InBounds(vv, c)
                  THEN pc' = "index_panic" /\ UNCHANGED stack
                  ELSE LET s == commonStep(vv, K, kk, f.d)
                           here == [stack EXCEPT ![top].xm = s.xm]
                       IN IF f.d > 0
                          THEN /\ stack' = Append(here, [x1 |-> s.x, y1 |-> s.y,
                                                         d |-> f.d - 1, xm |-> 0])
                               /\ pc' = "common"
                          ELSE /\ stack' = here
                               /\ pc' = "report"
    /\ UNCHANGED <<data, d, k, v, vs, ret, calls, equalArgs, points, prev>>

\* lines 86-89: the frame on top reports its snake and returns; the outermost
\* return is line 60 of Diff
CommonReturn ==
    /\ pc = "report"
    /\ LET top == Len(stack)
           f == stack[top]
           n == f.x1 - f.xm
           reports == commonReports(n, f.d, Len(vs) - 1)
       IN /\ calls' = IF reports
                      THEN Append(calls, [i |-> f.xm, j |-> f.y1 - n, n |-> n,
                                          d |-> f.d])
                      ELSE calls
          /\ IF reports /\ CommonPanics(data, f.xm, f.y1 - n, n)
             THEN pc' = "index_panic" /\ UNCHANGED <<data, stack, ret>>
             ELSE /\ data' = IF reports THEN Common(data, f.xm, f.y1 - n, n)
                                       ELSE data
                  /\ stack' = SubSeq(stack, 1, top - 1)
                  /\ IF top = 1
                     THEN pc' = "done" /\ ret' = Len(vs) - 1
                     ELSE pc' = "report" /\ ret' = ret
    /\ UNCHANGED <<d, k, v, vs, equalArgs, points, prev>>

DiffStep == LoopD \/ LoopK \/ LoopKEnd \/ CommonEnter \/ CommonReturn

\* ------------------------------------------------------------ the callers

NoPrev == [round |-> 0]

\* TestDiff: Diff on a fresh stringDiff
Init ==
    /\ \E A \in Lines, B \in Lines : Start(stringDiff(A, B))
    /\ prev = NoPrev

\* TestDiff's loop goes on to the next pair, here the same two strings with
\* left and right exchanged; the calls of the finished Diff are kept
TestDiffNext ==
    /\ pc = "done"
    /\ data.type = "stringDiff"
    /\ prev.round = 0
    /\ prev' = [round |-> 1, a |-> data.a, b |-> data.b, calls |-> calls, ret |-> ret]
    /\ Restart(stringDiff(data.b, data.a))

Next == DiffStep \/ TestDiffNext

Spec == Init /\ [][Next]_vars

\* SideBySide(a, b)
InitSideBySide ==
    /\ \E A \in Lines, B \in Lines : Start(sideBySide(A, B))
    /\ prev = NoPrev

NextSideBySide == DiffStep

SpecSideBySide == InitSideBySide /\ [][NextSideBySide]_vars

\* ExampleAnnotate: Annotate(nil, files[0], 0)
InitAnnotate ==
    /\ \E B \in Files : Start(annotate(<<>>, B, 0))
    /\ prev = NoPrev

\* ExampleAnnotate: lines = Annotate(lines, files[version], version)
AnnotateNext ==
    /\ pc = "done"
    /\ data.type = "annotate"
    /\ data.version < MaxVersion
    /\ prev' = prev
    /\ \E B \in Files : Restart(annotate(data.lines, B, data.version + 1))

NextAnnotate == DiffStep \/ AnnotateNext

SpecAnnotate == InitAnnotate /\ [][NextAnnotate]_vars

\* ======================================================== the properties

Done == pc = "done"

Max(p, q) == IF p >= q THEN p ELSE q
Min(p, q) == IF p <= q THEN p ELSE q

\* the reference dynamic-programming LCS of A[1..i] and B[1..j]
RECURSIVE LCS(_, _, _, _)
LCS(A, B, i, j) ==
    IF i = 0 \/ j = 0 THEN 0
    ELSE IF A[i] = B[j] THEN 1 + LCS(A, B, i - 1, j - 1)
    ELSE Max(LCS(A, B, i - 1, j), LCS(A, B, i, j - 1))

RECURSIVE SumN(_, _)
SumN(cs, c) == IF c = 0 THEN 0 ELSE cs[c].n + SumN(cs, c - 1)

\* C1: Diff never reaches the "no path found" panic and returns
\* N + M - 2 * LCS(A, B), a value in 0..N+M.
C1_EditDistance ==
    /\ pc # "panic"
    /\ Done => /\ ret = N + M - 2 * LCS(data.a, data.b, N, M)
               /\ ret \in 0..(N + M)

C1_Witness ==
    /\ Done
    /\ N = MaxLen /\ M = MaxLen
    /\ ret = 4
    /\ LCS(data.a, data.b, N, M) = 1

\* C2: every Common(i, j, n) reports a real common run inside both sequences.
C2_RealRuns ==
    \A c \in 1..Len(calls) :
        LET r == calls[c] IN
        /\ r.n >= 0
        /\ 0 <= r.i /\ r.i + r.n <= N
        /\ 0 <= r.j /\ r.j + r.n <= M
        /\ \A t \in 0..(r.n - 1) : Equal(data, r.i + t, r.j + t)

C2_Witness ==
    \E c \in 1..Len(calls) :
        calls[c].n >= 2 /\ calls[c].j > calls[c].i

\* C3: the reported runs are strictly increasing in i and in j and do not
\* overlap, and the elements no run covers number what Diff returns.
C3_Partition ==
    /\ \A c \in 1..(Len(calls) - 1) :
           LET r1 == calls[c]
               r2 == calls[c + 1]
           IN /\ r2.i > r1.i /\ r2.j > r1.j
              /\ r2.i >= r1.i + r1.n /\ r2.j >= r1.j + r1.n
    /\ Done => N + M - 2 * SumN(calls, Len(calls)) = ret

C3_Witness ==
    /\ Done
    /\ Len(calls) = 3
    /\ ret = 2

\* C4: Diff calls Common at least once, and its last call ends at (N, M),
\* with n = 0 when the last elements differ or a sequence is empty.
C4_LastCall ==
    Done =>
        /\ Len(calls) >= 1
        /\ LET r == calls[Len(calls)] IN
           /\ r.i + r.n = N
           /\ r.j + r.n = M
           /\ (N = 0 \/ M = 0 \/ ~Equal(data, N - 1, M - 1)) => r.n = 0

C4_Witness ==
    /\ Done
    /\ N > 0 /\ M = 0
    /\ Len(calls) = 1
    /\ calls[1].n = 0

\* the lines of the gap before call c and of its run, as C5 states them
C5_Block(cs, A, B, c) ==
    LET pi == IF c = 1 THEN 0 ELSE cs[c - 1].i + cs[c - 1].n
        pj == IF c = 1 THEN 0 ELSE cs[c - 1].j + cs[c - 1].n
        p == cs[c].i - pi
        q == cs[c].j - pj
        gap == [t \in 1..Max(p, q) |->
                   IF t <= Min(p, q)
                   THEN [Left |-> A[pi + t], Right |-> B[pj + t], Type |-> Changed]
                   ELSE IF p > q
                   THEN [Left |-> A[pi + t], Right |-> "", Type |-> Deleted]
                   ELSE [Left |-> "", Right |-> B[pj + t], Type |-> Added]]
        run == [t \in 1..cs[c].n |->
                   [Left |-> A[cs[c].i + t], Right |-> A[cs[c].i + t],
                    Type |-> NoChange]]
    IN gap \o run

RECURSIVE C5_Expected(_, _, _, _)
C5_Expected(cs, A, B, c) ==
    IF c = 0 THEN <<>> ELSE C5_Expected(cs, A, B, c - 1) \o C5_Block(cs, A, B, c)

C5_NotAdded(l) == l.Type # Added
C5_NotDeleted(l) == l.Type # Deleted
C5_Lefts(ls) == [t \in 1..Len(ls) |-> ls[t].Left]
C5_Rights(ls) == [t \in 1..Len(ls) |-> ls[t].Right]

\* C5: SideBySide returns, per gap, min(p, q) Changed lines, then the Deleted
\* or Added remainder, then one NoChange line per row of the run; its Left
\* fields (Added lines apart) are a and its Right fields (Deleted apart) are b.
C5_SideBySide ==
    /\ data.lines = C5_Expected(calls, data.a, data.b, Len(calls))
    /\ Done => /\ C5_Lefts(SelectSeq(data.lines, C5_NotAdded)) = data.a
               /\ C5_Rights(SelectSeq(data.lines, C5_NotDeleted)) = data.b

C5_Witness ==
    /\ Done
    /\ \E t \in 1..Len(data.lines) : data.lines[t].Type = Changed
    /\ \E t \in 1..Len(data.lines) : data.lines[t].Type = Added
    /\ \E t \in 1..Len(data.lines) : data.lines[t].Type = NoChange

\* C6: Annotate returns one entry per line of newLines, with that text; an
\* entry inside a reported run is the matched line of prevAnnotated, version
\* included, and every other entry carries the version of the call.
C6_Annotate ==
    Done =>
        /\ Len(data.lines) = Len(data.b)
        /\ \A t \in 1..Len(data.lines) :
               /\ data.lines[t].Text = data.b[t]
               /\ IF \E c \in 1..Len(calls) :
                         calls[c].j < t /\ t <= calls[c].j + calls[c].n
                  THEN \A c \in 1..Len(calls) :
                           (calls[c].j < t /\ t <= calls[c].j + calls[c].n)
                               => data.lines[t] = data.a[calls[c].i + t - calls[c].j]
                  ELSE data.lines[t].Version = data.version
        /\ Cardinality({t \in 1..Len(data.lines) :
                            data.lines[t].Version # data.version})
               <= SumN(calls, Len(calls))

C6_Witness ==
    /\ Done
    /\ data.version = 2
    /\ Len(data.a) = 3
    /\ \E t \in 1..Len(data.lines) : data.lines[t].Version = 0
    /\ \E t \in 1..Len(data.lines) : data.lines[t].Version = 1
    /\ \E t \in 1..Len(data.lines) : data.lines[t].Version = 2

\* the matched pairs (left element, right element) of the calls cs, as a bag;
\* swap exchanges the roles of left and right
MatchedPairs(cs, A, B, swap) ==
    LET idx == {p \in (1..Len(cs)) \X (0..MaxLen + 1) : p[2] < cs[p[1]].n}
        pair(p) == IF swap
                   THEN <<B[cs[p[1]].j + p[2] + 1], A[cs[p[1]].i + p[2] + 1]>>
                   ELSE <<A[cs[p[1]].i + p[2] + 1], B[cs[p[1]].j + p[2] + 1]>>
        S == {pair(p) : p \in idx}
    IN [e \in S |-> Cardinality({p \in idx : pair(p) = e})]

\* C7 as stated: the matched pairs of Diff(B, A), left and right exchanged,
\* are the matched pairs of Diff(A, B).
C7_Symmetry ==
    (Done /\ prev.round = 1) =>
        MatchedPairs(calls, data.a, data.b, TRUE)
            = MatchedPairs(prev.calls, prev.a, prev.b, FALSE)

\* C7 amended: Diff(B, A) matches as many pairs as Diff(A, B), and returns
\* the same value.
C7_SameCount ==
    (Done /\ prev.round = 1) =>
        /\ SumN(calls, Len(calls)) = SumN(prev.calls, Len(prev.calls))
        /\ ret = prev.ret

C7_Witness ==
    /\ Done /\ prev.round = 1
    /\ SumN(calls, Len(calls)) = 2
    /\ MatchedPairs(calls, data.a, data.b, TRUE)
           # MatchedPairs(prev.calls, prev.a, prev.b, FALSE)

C8_MaximalAtEnd(r) ==
    r.i + r.n = N \/ r.j + r.n = M \/ ~Equal(data, r.i + r.n, r.j + r.n)

C8_MaximalAtStart(r) ==
    r.i = 0 \/ r.j = 0 \/ ~Equal(data, r.i - 1, r.j - 1)

\* C8 as stated: a reported run with n > 0 can be extended at neither end.
C8_Maximal ==
    \A c \in 1..Len(calls) :
        calls[c].n > 0 => C8_MaximalAtStart(calls[c]) /\ C8_MaximalAtEnd(calls[c])

\* C8 amended: a reported run with n > 0 cannot be extended at its end, and
\* no reported run continues the one before it.
C8_MaximalForward ==
    /\ \A c \in 1..Len(calls) : calls[c].n > 0 => C8_MaximalAtEnd(calls[c])
    /\ \A c \in 1..(Len(calls) - 1) :
           ~(/\ calls[c + 1].i = calls[c].i + calls[c].n
             /\ calls[c + 1].j = calls[c].j + calls[c].n)

C8_Witness ==
    /\ Done
    /\ \E c \in 1..Len(calls) : calls[c].n > 0 /\ ~C8_MaximalAtStart(calls[c])
    /\ \E c \in 1..Len(calls) :
           /\ calls[c].n > 0
           /\ calls[c].i + calls[c].n < N
           /\ calls[c].j + calls[c].n < M

\* C9 as stated: the step for d = 0 always calls Common(0, 0, n).
C9_FirstStepFires ==
    Done => \E c \in 1..Len(calls) :
                calls[c].d = 0 /\ calls[c].i = 0 /\ calls[c].j = 0

\* C9 amended: the step for d = 0 calls Common exactly when its snake is not
\* empty or Diff returns 0, and then as Common(0, 0, n); the step that always
\* calls Common is the one for the final d.
C9_LastStepFires ==
    Done =>
        /\ (\E c \in 1..Len(calls) : calls[c].d = 0)
               <=> (ret = 0 \/ (N > 0 /\ M > 0 /\ Equal(data, 0, 0)))
        /\ \A c \in 1..Len(calls) :
               calls[c].d = 0 => c = 1 /\ calls[c].i = 0 /\ calls[c].j = 0
        /\ calls[Len(calls)].d = ret

C9_Witness ==
    /\ Done
    /\ ret > 0
    /\ \A c \in 1..Len(calls) : calls[c].d # 0
    /\ Len(calls) = 2

\* C10: Equal is called only inside the N x M grid, no visited point has a
\* negative coordinate, and every access of v stays inside its
\* 2 * (N + M) + 3 cells.
C10_InRange ==
    /\ pc # "index_panic"
    /\ \A p \in equalArgs : 0 <= p[1] /\ p[1] < N /\ 0 <= p[2] /\ p[2] < M
    /\ \A p \in points : p[1] >= 0 /\ p[2] >= 0
    /\ pc = "loop_k" => Len(v) = 2 * (N + M) + 3
    /\ \A t \in 1..Len(vs) : Len(vs[t]) = 2 * (N + M) + 3

C10_Witness ==
    /\ Done
    /\ \E p \in points : p[1] > N
    /\ \E p \in points : p[2] > M
    /\ Cardinality(equalArgs) = N * M
    /\ N = MaxLen /\ M = MaxLen

====
